---- MODULE Spec2Model ----
(***************************************************************************)
(* A model of the Sunscreen plaintext codecs (types/bfv/signed.rs,         *)
(* types/integer.rs) and of the typed operator layer that appends nodes    *)
(* to the circuit graph of the active construction scope.                  *)
(*                                                                         *)
(* The native integer width (64 bits in the source) is scaled down to      *)
(* NativeBits bits; u64 is 0..UMax and i64 is IMin..IMax.  Arithmetic that *)
(* leaves the width panics in a build with overflow checks ("debug") and   *)
(* wraps in a build without them ("release").                              *)
(***************************************************************************)
EXTENDS Integers, Sequences, FiniteSets, TLC

VARIABLES build, plain_modulus, val, plaintext, codec, result, pc,
          ctx, handles, calls, tstate, compiled,
          id_data_lookup, data_id_lookup, inserted, found

codecVars == <<val, plaintext, codec, result, pc>>
graphVars == <<ctx, handles, calls, tstate, compiled>>
lookupVars == <<id_data_lookup, data_id_lookup, inserted, found>>
vars == <<build, plain_modulus, val, plaintext, codec, result, pc,
          ctx, handles, calls, tstate, compiled,
          id_data_lookup, data_id_lookup, inserted, found>>

----------------------------------------------------------------------------
(* Bounds of the model *)

\* the native integer width, std::mem::size_of::<u64>() * 8, scaled down
NativeBits == 4
\* the largest plaintext modulus of a Parameter Set
MaxPlainModulus == 5
\* the most typed operator calls one construction scope completes
MaxCalls == 2
\* the most handles a circuit function makes itself with CircuitNode::new
MaxNewHandles == 1
\* the most typed operator calls of a circuit function that makes handles
MaxOperandCalls == 1
\* the most typed operator calls of each of two independent circuit functions
MaxThreadCalls == 1
\* the most frames of a captured stack trace
MaxFrames == 1
\* the most nodes whose stack trace the lookup records
MaxInserts == 2

RECURSIVE Pow2(_)
Pow2(n) == IF n <= 0 THEN 1 ELSE 2 * Pow2(n - 1)

UMax == Pow2(NativeBits) - 1
IMax == Pow2(NativeBits - 1) - 1
IMin == 0 - Pow2(NativeBits - 1)

Builds == {"debug", "release"}
PlainModuli == 2..MaxPlainModulus

Min(a, b) == IF a < b THEN a ELSE b

----------------------------------------------------------------------------
(* Results of an operation: a value, a panic, or an error result *)

Ok(x) == [kind |-> "ok", val |-> x]
Panic == [kind |-> "panic", val |-> 0]
IncorrectCiphertextCount == [kind |-> "IncorrectCiphertextCount", val |-> 0]
NoResult == [kind |-> "none", val |-> 0]

----------------------------------------------------------------------------
(* Native-width arithmetic *)

WrapU(x) == x % Pow2(NativeBits)
WrapI(x) == LET m == WrapU(x) IN IF m > IMax THEN m - Pow2(NativeBits) ELSE m

\* x is the exact result of a u64 operation
CheckedU(x, b) == IF 0 <= x /\ x <= UMax THEN Ok(x)
                  ELSE IF b = "debug" THEN Panic ELSE Ok(WrapU(x))
\* x is the exact result of an i64 operation
CheckedI(x, b) == IF IMin <= x /\ x <= IMax THEN Ok(x)
                  ELSE IF b = "debug" THEN Panic ELSE Ok(WrapI(x))

\* 0x1 << i on u64: a shift by the width or more overflows
Shl1(i, b) == IF i < NativeBits THEN Ok(Pow2(i))
              ELSE IF b = "debug" THEN Panic ELSE Ok(Pow2(i % NativeBits))

\* (x & 0x1 << i) >> i on u64
BitValue(x, i, b) == IF i < NativeBits THEN Ok((x \div Pow2(i)) % 2)
                     ELSE IF b = "debug" THEN Panic
                     ELSE Ok((x \div Pow2(i % NativeBits)) % 2)

\* (if v < 0 { -v } else { v }) as u64
Magnitude(v, b) == IF v < 0
                   THEN LET n == CheckedI(0 - v, b)
                        IN IF n.kind = "panic" THEN Panic ELSE Ok(WrapU(n.val))
                   ELSE Ok(v)

----------------------------------------------------------------------------
(* types/bfv/signed.rs: the Signed codec *)

RECURSIVE significant_bits_loop(_, _)
significant_bits_loop(v, i) ==
    IF i >= NativeBits THEN 0
    ELSE IF (v \div Pow2(NativeBits - i - 1)) % 2 /= 0 THEN NativeBits - i + 1
    ELSE significant_bits_loop(v, i + 1)

significant_bits(v) == significant_bits_loop(v, 0)

\* Signed_coeff_value without the bit_value factor, as integer.rs has it
Signed_coeff_value_NoBitFactor(v, signed_val, i, pm, b) ==
    LET bit_value == BitValue(signed_val, i, b)
    IN IF bit_value.kind = "panic" THEN Panic
       ELSE IF v < 0 THEN CheckedU(pm - bit_value.val, b)
       ELSE Ok(bit_value.val)

\* the body of the loop of try_into_plaintext: coefficient i
Signed_coeff_value(v, signed_val, i, pm, b) ==
    LET bit_value == BitValue(signed_val, i, b)
    IN IF bit_value.kind = "panic" THEN Panic
       ELSE IF v < 0 THEN CheckedU(bit_value.val * (pm - bit_value.val), b)
       ELSE Ok(bit_value.val)

\* Ok(inner), inner the list of polynomial components, or Panic
Signed_try_into_plaintext(v, pm, b) ==
    LET signed_val == Magnitude(v, b)
    IN IF signed_val.kind = "panic" THEN Panic
       ELSE LET sig_bits == significant_bits(signed_val.val)
                c == [i \in 1..sig_bits |->
                         Signed_coeff_value(v, signed_val.val, i - 1, pm, b)]
            IN IF \E i \in 1..sig_bits : c[i].kind = "panic" THEN Panic
               ELSE Ok(<< [i \in 1..sig_bits |-> c[i].val] >>)

\* Signed_decode_step with the cutoff itself taken as positive
Signed_decode_step_CutoffInclusive(acc, i, coeff, pm, b) ==
    LET negative_cutoff == (pm + 1) \div 2
        shift == Shl1(i, b)
    IN IF shift.kind = "panic" THEN Panic
       ELSE IF coeff <= negative_cutoff
       THEN LET prod == CheckedU(shift.val * coeff, b)
            IN IF prod.kind = "panic" THEN Panic
               ELSE CheckedI(acc + WrapI(prod.val), b)
       ELSE LET diff == CheckedU(pm - coeff, b)
                prod == IF diff.kind = "panic" THEN Panic
                        ELSE CheckedU(shift.val * diff.val, b)
            IN IF prod.kind = "panic" THEN Panic
               ELSE CheckedI(acc - WrapI(prod.val), b)

\* the body of the loop of try_from_plaintext: val after coefficient i
Signed_decode_step(acc, i, coeff, pm, b) ==
    LET negative_cutoff == (pm + 1) \div 2
        shift == Shl1(i, b)
    IN IF shift.kind = "panic" THEN Panic
       ELSE IF coeff < negative_cutoff
       THEN LET prod == CheckedU(shift.val * coeff, b)
            IN IF prod.kind = "panic" THEN Panic
               ELSE CheckedI(acc + WrapI(prod.val), b)
       ELSE LET diff == CheckedU(pm - coeff, b)
                prod == IF diff.kind = "panic" THEN Panic
                        ELSE CheckedU(shift.val * diff.val, b)
            IN IF prod.kind = "panic" THEN Panic
               ELSE CheckedI(acc - WrapI(prod.val), b)

RECURSIVE Signed_decode_loop(_, _, _, _, _, _)
Signed_decode_loop(coeffs, i, bits, acc, pm, b) ==
    IF i >= bits THEN Ok(acc)
    ELSE LET next == Signed_decode_step(acc, i, coeffs[i + 1], pm, b)
         IN IF next.kind = "panic" THEN Panic
            ELSE Signed_decode_loop(coeffs, i + 1, bits, next.val, pm, b)

Signed_try_from_plaintext(p, pm, b) ==
    IF Len(p) /= 1 THEN IncorrectCiphertextCount
    ELSE LET bits == Min(Min(NativeBits, Len(p[1])), Len(p[1]))
         IN Signed_decode_loop(p[1], 0, bits, 0, pm, b)

----------------------------------------------------------------------------
(* types/integer.rs: the Unsigned codec and the full-width Signed codec *)

Unsigned_try_into_plaintext(v, pm, b) ==
    LET bits == NativeBits
        c == [i \in 1..bits |-> BitValue(v, i - 1, b)]
    IN IF \E i \in 1..bits : c[i].kind = "panic" THEN Panic
       ELSE Ok(<< [i \in 1..bits |-> c[i].val] >>)

\* Unsigned_decode_step adding the coefficient without its weight
Unsigned_decode_step_Unweighted(acc, i, coeff, b) == CheckedU(acc + coeff, b)

Unsigned_decode_step(acc, i, coeff, b) ==
    LET shift == Shl1(i, b)
        prod == IF shift.kind = "panic" THEN Panic
                ELSE CheckedU(coeff * shift.val, b)
    IN IF prod.kind = "panic" THEN Panic ELSE CheckedU(acc + prod.val, b)

RECURSIVE Unsigned_decode_loop(_, _, _, _, _)
Unsigned_decode_loop(coeffs, i, bits, acc, b) ==
    IF i >= bits THEN Ok(acc)
    ELSE LET next == Unsigned_decode_step(acc, i, coeffs[i + 1], b)
         IN IF next.kind = "panic" THEN Panic
            ELSE Unsigned_decode_loop(coeffs, i + 1, bits, next.val, b)

\* Unsigned_try_from_plaintext rejecting only a plaintext of no component
Unsigned_try_from_plaintext_EmptyOnly(p, pm, b) ==
    IF Len(p) = 0 THEN IncorrectCiphertextCount
    ELSE LET bits == Min(NativeBits, Len(p[1]))
         IN Unsigned_decode_loop(p[1], 0, bits, 0, b)

Unsigned_try_from_plaintext(p, pm, b) ==
    IF Len(p) /= 1 THEN IncorrectCiphertextCount
    ELSE LET bits == Min(NativeBits, Len(p[1]))
         IN Unsigned_decode_loop(p[1], 0, bits, 0, b)

IntegerSigned_coeff_value(v, unsigned_val, i, pm, b) ==
    LET bit_value == BitValue(unsigned_val, i, b)
    IN IF bit_value.kind = "panic" THEN Panic
       ELSE IF v < 0 THEN CheckedU(pm - bit_value.val, b)
       ELSE Ok(bit_value.val)

IntegerSigned_try_into_plaintext(v, pm, b) ==
    LET bits == NativeBits
        unsigned_val == Magnitude(v, b)
    IN IF unsigned_val.kind = "panic" THEN Panic
       ELSE LET c == [i \in 1..bits |->
                         IntegerSigned_coeff_value(v, unsigned_val.val, i - 1, pm, b)]
            IN IF \E i \in 1..bits : c[i].kind = "panic" THEN Panic
               ELSE Ok(<< [i \in 1..bits |-> c[i].val] >>)

IntegerSigned_decode_step(acc, i, coeff, pm, b) ==
    LET negative_cutoff == (pm + 1) \div 2
        shift == Shl1(i, b)
    IN IF shift.kind = "panic" THEN Panic
       ELSE IF coeff > negative_cutoff
       THEN LET prod == CheckedU(shift.val * coeff, b)
            IN IF prod.kind = "panic" THEN Panic
               ELSE CheckedI(acc + WrapI(prod.val), b)
       ELSE LET diff == CheckedU(pm - coeff, b)
                prod == IF diff.kind = "panic" THEN Panic
                        ELSE CheckedU(shift.val * diff.val, b)
            IN IF prod.kind = "panic" THEN Panic
               ELSE CheckedI(acc - WrapI(prod.val), b)

RECURSIVE IntegerSigned_decode_loop(_, _, _, _, _, _)
IntegerSigned_decode_loop(coeffs, i, bits, acc, pm, b) ==
    IF i >= bits THEN Ok(acc)
    ELSE LET next == IntegerSigned_decode_step(acc, i, coeffs[i + 1], pm, b)
         IN IF next.kind = "panic" THEN Panic
            ELSE IntegerSigned_decode_loop(coeffs, i + 1, bits, next.val, pm, b)

IntegerSigned_try_from_plaintext(p, pm, b) ==
    IF Len(p) /= 1 THEN IncorrectCiphertextCount
    ELSE LET bits == Min(NativeBits, Len(p[1]))
         IN IntegerSigned_decode_loop(p[1], 0, bits, 0, pm, b)

----------------------------------------------------------------------------
(* sunscreen_compiler_common/src/lookup.rs: the stack-frame lookup.  A     *)
(* String is a sequence of characters; a number formats to one token.     *)

StackFrameInfo(name, file, lineno, col) ==
    [callee_name |-> name, callee_file |-> file,
     callee_lineno |-> lineno, callee_col |-> col]

\* format!("{}-{}-{}", callee_name, callee_file, callee_lineno)
serialize(f) ==
    f.callee_name \o <<"-">> \o f.callee_file \o <<"-">> \o <<ToString(f.callee_lineno)>>

\* the key of data_id_lookup: the serialized stack trace, frame by frame
serialize_trace(trace) == [i \in 1..Len(trace) |-> serialize(trace[i])]

\* StackFrameLookup::new(): both maps empty; no node yet, nothing retrieved
NotFound == [kind |-> "NotFound", val |-> <<>>]
NothingFound == [id |-> 0, res |-> [kind |-> "none", val |-> <<>>]]

NewLookup ==
    /\ id_data_lookup = <<>>
    /\ data_id_lookup = <<>>
    /\ inserted = <<>>
    /\ found = NothingFound

\* a map with one more entry
Put(map, k, v) == [x \in DOMAIN map \cup {k} |-> IF x = k THEN v ELSE map[x]]

\* the stack_id of a trace: the id its key has already, or the next id
stack_id_of(d, key) == IF key \in DOMAIN d THEN d[key] ELSE Cardinality(DOMAIN d)

\* id_to_data returning an empty trace for an id it does not hold
id_to_data_EmptyWhenUnknown(m, id) == IF id \in DOMAIN m THEN Ok(m[id]) ELSE Ok(<<>>)

\* HashMap::get on id_data_lookup
id_to_data(m, id) == IF id \in DOMAIN m THEN Ok(m[id]) ELSE NotFound

----------------------------------------------------------------------------
(* The Graph Builder: the Context of the active scope, one per thread *)

Threads == {1, 2}

\* CURRENT_CTX of a thread with no active scope
NoCtx == [some |-> FALSE, params |-> [plain_modulus |-> 0], graph |-> <<>>]

\* a node of the graph; its identity is its position, counted from 0
Node(op, inputs, payload) == [operation |-> op, inputs |-> inputs, payload |-> payload]

\* appends a node; the new context and the identity of the node
add_node(c, op, inputs, payload) ==
    [ctx |-> [c EXCEPT !.graph = Append(@, Node(op, inputs, payload))],
     id |-> Len(c.graph)]

add_addition(c, a, b) == add_node(c, "Add", <<a, b>>, <<>>)
add_subtraction(c, a, b) == add_node(c, "Sub", <<a, b>>, <<>>)
add_multiplication(c, a, b) == add_node(c, "Multiply", <<a, b>>, <<>>)
add_addition_plaintext(c, a, b) == add_node(c, "AddPlaintext", <<a, b>>, <<>>)
add_subtraction_plaintext(c, a, b) == add_node(c, "SubPlaintext", <<a, b>>, <<>>)
add_multiplication_plaintext(c, a, b) ==
    add_node(c, "MultiplyPlaintext", <<a, b>>, <<>>)
add_negate(c, a) == add_node(c, "Negate", <<a>>, <<>>)
add_plaintext_literal(c, inner) == add_node(c, "Literal", <<>>, inner)

\* the arguments of the circuit function: a, b, c encrypted Signed, d a
\* plaintext Signed, u an Unsigned
InputKinds == <<"cipher", "cipher", "cipher", "plain", "unsigned">>

InputTag(kind) == IF kind = "cipher" THEN "InputCiphertext" ELSE "InputPlaintext"

\* the Context a scope starts with: the graph holds the input nodes
NewContext(pm) ==
    [some |-> TRUE, params |-> [plain_modulus |-> pm],
     graph |-> [i \in 1..Len(InputKinds) |-> Node(InputTag(InputKinds[i]), <<>>, <<>>)]]

\* CircuitNode::new(ids): a typed handle over node identities
CircuitNode(kind, ids) == [kind |-> kind, ids |-> ids]

\* what a closure run by with_ctx leaves: the context and the handle returned
Built(c, ret) == [kind |-> "ok", ctx |-> c, ret |-> ret]
\* the closure panicked (unwrap(), or ids[0] of a handle of no identity): the
\* context stays as the closure had left it by then
ClosurePanic(c) == [kind |-> "panic", ctx |-> c, ret |-> CircuitNode("cipher", <<>>)]

\* ids[0] of some handle among hs is out of bounds
NoFirstId(hs) == \E h \in hs : Len(h.ids) = 0

\* with_ctx resolving the calling thread's cell to the context of thread 1
with_ctx_Shared(t) ==
    IF ctx[1].some THEN [kind |-> "ok", cell |-> 1] ELSE [kind |-> "panic", cell |-> 1]

\* with_ctx running the closure on an empty context when no scope is active
with_ctx_Orphan(t) == [kind |-> "ok", cell |-> t]

\* with_ctx: the cell of the calling thread, or the panic of expect()
with_ctx(t) ==
    IF ctx[t].some THEN [kind |-> "ok", cell |-> t] ELSE [kind |-> "panic", cell |-> t]

----------------------------------------------------------------------------
(* types/bfv/signed.rs and types/integer.rs: the typed operators, each the *)
(* closure it hands to with_ctx, run on the context c                      *)

graph_cipher_add(c, a, b) ==
    IF NoFirstId({a, b}) THEN ClosurePanic(c)
    ELSE LET n == add_addition(c, a.ids[1], b.ids[1])
         IN Built(n.ctx, CircuitNode("cipher", <<n.id>>))

graph_cipher_plain_add(c, a, b) ==
    IF NoFirstId({a, b}) THEN ClosurePanic(c)
    ELSE LET n == add_addition_plaintext(c, a.ids[1], b.ids[1])
         IN Built(n.ctx, CircuitNode("cipher", <<n.id>>))

\* graph_cipher_const_add appending the addition before the literal it reads
graph_cipher_const_add_LiteralLast(c, a, b, bld) ==
    LET e == Signed_try_into_plaintext(b, c.params.plain_modulus, bld)
    IN IF e.kind = "panic" THEN ClosurePanic(c)
       ELSE IF NoFirstId({a}) THEN ClosurePanic(c)
       ELSE LET add == add_addition_plaintext(c, a.ids[1], Len(c.graph) + 1)
                lit == add_plaintext_literal(add.ctx, e.val)
            IN Built(lit.ctx, CircuitNode("cipher", <<add.id>>))

graph_cipher_const_add(c, a, b, bld) ==
    LET e == Signed_try_into_plaintext(b, c.params.plain_modulus, bld)
    IN IF e.kind = "panic" THEN ClosurePanic(c)
       ELSE LET lit == add_plaintext_literal(c, e.val)
            IN IF NoFirstId({a}) THEN ClosurePanic(lit.ctx)
               ELSE LET add == add_addition_plaintext(lit.ctx, a.ids[1], lit.id)
                    IN Built(add.ctx, CircuitNode("cipher", <<add.id>>))

graph_cipher_sub(c, a, b) ==
    IF NoFirstId({a, b}) THEN ClosurePanic(c)
    ELSE LET n == add_subtraction(c, a.ids[1], b.ids[1])
         IN Built(n.ctx, CircuitNode("cipher", <<n.id>>))

graph_cipher_plain_sub(c, a, b) ==
    IF NoFirstId({a, b}) THEN ClosurePanic(c)
    ELSE LET n == add_subtraction_plaintext(c, a.ids[1], b.ids[1])
         IN Built(n.ctx, CircuitNode("cipher", <<n.id>>))

graph_plain_cipher_sub(c, a, b) ==
    IF NoFirstId({a, b}) THEN ClosurePanic(c)
    ELSE LET n == add_subtraction_plaintext(c, b.ids[1], a.ids[1])
             m == add_negate(n.ctx, n.id)
         IN Built(m.ctx, CircuitNode("cipher", <<m.id>>))

graph_cipher_const_sub(c, a, b, bld) ==
    LET e == Signed_try_into_plaintext(b, c.params.plain_modulus, bld)
    IN IF e.kind = "panic" THEN ClosurePanic(c)
       ELSE LET lit == add_plaintext_literal(c, e.val)
            IN IF NoFirstId({a}) THEN ClosurePanic(lit.ctx)
               ELSE LET n == add_subtraction_plaintext(lit.ctx, a.ids[1], lit.id)
                    IN Built(n.ctx, CircuitNode("cipher", <<n.id>>))

graph_const_cipher_sub(c, a, b, bld) ==
    LET e == Signed_try_into_plaintext(a, c.params.plain_modulus, bld)
    IN IF e.kind = "panic" THEN ClosurePanic(c)
       ELSE LET lit == add_plaintext_literal(c, e.val)
            IN IF NoFirstId({b}) THEN ClosurePanic(lit.ctx)
               ELSE LET n == add_subtraction_plaintext(lit.ctx, b.ids[1], lit.id)
                        m == add_negate(n.ctx, n.id)
                    IN Built(m.ctx, CircuitNode("cipher", <<m.id>>))

\* graph_cipher_neg turning the operand's node into the negate node
graph_cipher_neg_InPlace(c, a) ==
    IF NoFirstId({a}) THEN ClosurePanic(c)
    ELSE Built([c EXCEPT !.graph[a.ids[1] + 1] = Node("Negate", <<a.ids[1]>>, <<>>)],
               CircuitNode("cipher", <<a.ids[1]>>))

graph_cipher_neg(c, a) ==
    IF NoFirstId({a}) THEN ClosurePanic(c)
    ELSE LET n == add_negate(c, a.ids[1])
         IN Built(n.ctx, CircuitNode("cipher", <<n.id>>))

\* graph_cipher_mul with its operands exchanged
graph_cipher_mul_Swapped(c, a, b) ==
    IF NoFirstId({a, b}) THEN ClosurePanic(c)
    ELSE LET n == add_multiplication(c, b.ids[1], a.ids[1])
         IN Built(n.ctx, CircuitNode("cipher", <<n.id>>))

graph_cipher_mul(c, a, b) ==
    IF NoFirstId({a, b}) THEN ClosurePanic(c)
    ELSE LET n == add_multiplication(c, a.ids[1], b.ids[1])
         IN Built(n.ctx, CircuitNode("cipher", <<n.id>>))

graph_cipher_const_mul(c, a, b, bld) ==
    LET e == Signed_try_into_plaintext(b, c.params.plain_modulus, bld)
    IN IF e.kind = "panic" THEN ClosurePanic(c)
       ELSE LET lit == add_plaintext_literal(c, e.val)
            IN IF NoFirstId({a}) THEN ClosurePanic(lit.ctx)
               ELSE LET add == add_multiplication_plaintext(lit.ctx, a.ids[1], lit.id)
                    IN Built(add.ctx, CircuitNode("cipher", <<add.id>>))

graph_cipher_plain_mul(c, a, b) ==
    IF NoFirstId({a, b}) THEN ClosurePanic(c)
    ELSE LET n == add_multiplication_plaintext(c, a.ids[1], b.ids[1])
         IN Built(n.ctx, CircuitNode("cipher", <<n.id>>))

\* impl Add for CircuitNode<Unsigned>
Unsigned_add(c, self, other) ==
    IF NoFirstId({self, other}) THEN ClosurePanic(c)
    ELSE LET n == add_addition(c, self.ids[1], other.ids[1])
         IN Built(n.ctx, CircuitNode("unsigned", <<n.id>>))

\* impl Mul for CircuitNode<Unsigned>
Unsigned_mul(c, self, other) ==
    IF NoFirstId({self, other}) THEN ClosurePanic(c)
    ELSE LET n == add_multiplication(c, self.ids[1], other.ids[1])
         IN Built(n.ctx, CircuitNode("unsigned", <<n.id>>))

----------------------------------------------------------------------------
(* The codecs as a state machine: a value is encoded and decoded again, or *)
(* a plaintext that some computation produced is decoded.                  *)

\* coefficient lists of at most n coefficients in [0, pm)
Polys(pm, n) == UNION {[1..k -> 0..(pm - 1)] : k \in 0..n}

\* plaintexts handed to a decoder: no component, one component of up to one
\* coefficient more than the native width, or two short components
GivenPlaintexts(pm) ==
    {<<>>} \cup {<<c>> : c \in Polys(pm, NativeBits + 1)}
           \cup {<<c, d>> : c \in Polys(pm, 1), d \in Polys(pm, 1)}

\* the ring dimensions of a valid Parameter Set: powers of two (the encoders
\* take the Params and read no ring dimension from it)
LatticeDimensions == {Pow2(k) : k \in 0..NativeBits}

CodecInit ==
    /\ build \in Builds
    /\ plain_modulus \in PlainModuli
    /\ codec = "none"
    /\ result = NoResult
    /\ \/ pc = "value" /\ val \in IMin..UMax /\ plaintext = <<>>
       \/ pc = "given" /\ val = 0 /\ plaintext \in GivenPlaintexts(plain_modulus)
    /\ ctx = [t \in Threads |-> NoCtx]
    /\ handles = [t \in Threads |-> <<>>]
    /\ calls = [t \in Threads |-> <<>>]
    /\ tstate = [t \in Threads |-> "idle"]
    /\ compiled = [t \in Threads |-> <<>>]
    /\ NewLookup

\* an encoder ran: its plaintext is kept, or the panic is the result
Encoded(name, enc) ==
    /\ codec' = name
    /\ IF enc.kind = "panic"
       THEN pc' = "panicked" /\ result' = Panic /\ UNCHANGED plaintext
       ELSE pc' = "encoded" /\ plaintext' = enc.val /\ UNCHANGED result
    /\ UNCHANGED <<build, plain_modulus, val, graphVars, lookupVars>>

\* a decoder ran on the plaintext
Decoded(name, dec) ==
    /\ \/ pc = "encoded" /\ codec = name
       \/ pc = "given"
    /\ codec' = name
    /\ result' = dec
    /\ pc' = IF pc = "encoded" THEN "roundtrip" ELSE "decoded"
    /\ UNCHANGED <<build, plain_modulus, val, plaintext, graphVars, lookupVars>>

SignedEncode ==
    /\ pc = "value" /\ val \in IMin..IMax
    /\ Encoded("Signed", Signed_try_into_plaintext(val, plain_modulus, build))

SignedDecode ==
    Decoded("Signed", Signed_try_from_plaintext(plaintext, plain_modulus, build))

UnsignedEncode ==
    /\ pc = "value" /\ val \in 0..UMax
    /\ Encoded("Unsigned", Unsigned_try_into_plaintext(val, plain_modulus, build))

UnsignedDecode ==
    Decoded("Unsigned", Unsigned_try_from_plaintext(plaintext, plain_modulus, build))

IntegerSignedEncode ==
    /\ pc = "value" /\ val \in IMin..IMax
    /\ Encoded("IntegerSigned",
               IntegerSigned_try_into_plaintext(val, plain_modulus, build))

IntegerSignedDecode ==
    Decoded("IntegerSigned",
            IntegerSigned_try_from_plaintext(plaintext, plain_modulus, build))

CodecNext ==
    \/ SignedEncode
    \/ SignedDecode
    \/ UnsignedEncode
    \/ UnsignedDecode
    \/ IntegerSignedEncode
    \/ IntegerSignedDecode

CodecSpec == CodecInit /\ [][CodecNext]_vars

----------------------------------------------------------------------------
(* Circuit construction as a state machine: a thread enters a scope, makes *)
(* typed operator calls on the handles it holds, and leaves the scope.     *)
(* Thread 2 builds the circuit function thread 1 builds: the same calls,   *)
(* in the same order, on the handles at the same positions.                *)

\* the constants a circuit function hands to the cipher-with-constant operators
Consts == {IMin, 0 - 1, 2}

\* the Parameter Sets a compilation runs with
GraphModuli == {MaxPlainModulus}

GraphInit ==
    /\ build \in Builds
    /\ plain_modulus \in GraphModuli
    /\ val = 0 /\ plaintext = <<>> /\ codec = "none" /\ result = NoResult
    /\ pc = "graph"
    /\ ctx = [t \in Threads |-> NoCtx]
    /\ handles = [t \in Threads |-> <<>>]
    /\ calls = [t \in Threads |-> <<>>]
    /\ tstate = [t \in Threads |-> "idle"]
    /\ compiled = [t \in Threads |-> <<>>]
    /\ NewLookup

\* the positions of the handles of a kind that thread t holds
Positions(t, kind) == {i \in 1..Len(handles[t]) : handles[t][i].kind = kind}

\* the Parameter Set of the compilation thread t runs: one for all, or one
\* of its own when the threads compile independent circuit functions
ParamsOf(t) == IF pc = "threads" THEN plain_modulus - (t - 1) ELSE plain_modulus

\* the most calls a circuit function completes
CallBound ==
    IF pc = "operands" THEN MaxOperandCalls
    ELSE IF pc = "threads" THEN MaxThreadCalls
    ELSE MaxCalls

\* the call continues the circuit function: thread 1 defines it, thread 2
\* follows, unless the threads build independent circuit functions
Follows(t, call) ==
    \/ t = 1
    \/ pc = "threads"
    \/ /\ Len(calls[t]) < Len(calls[1])
       /\ calls[1][Len(calls[t]) + 1] = call

\* the scope of the circuit function starts: CURRENT_CTX holds a fresh
\* Context whose graph has the input nodes, and the function gets their handles
EnterScope(t) ==
    /\ pc \in {"graph", "operands", "threads"}
    /\ tstate[t] = "idle"
    /\ t = 1 \/ tstate[1] /= "idle" \/ pc = "threads"
    /\ ctx' = [ctx EXCEPT ![t] = NewContext(ParamsOf(t))]
    /\ handles' = [handles EXCEPT ![t] =
                      [i \in 1..Len(InputKinds) |-> CircuitNode(InputKinds[i], <<i - 1>>)]]
    /\ tstate' = [tstate EXCEPT ![t] = "building"]
    /\ UNCHANGED <<build, plain_modulus, codecVars, calls, compiled, lookupVars>>

\* the scope ends: the graph goes to the lowering stage, CURRENT_CTX is None
ExitScope(t) ==
    /\ tstate[t] = "building"
    /\ compiled' = [compiled EXCEPT ![t] = ctx[t].graph]
    /\ ctx' = [ctx EXCEPT ![t] = NoCtx]
    /\ tstate' = [tstate EXCEPT ![t] = "done"]
    /\ UNCHANGED <<build, plain_modulus, codecVars, handles, calls, lookupVars>>

\* thread t made the call: w is what with_ctx resolved, out what the closure left
Called(t, call, w, out) ==
    /\ tstate[t] \in {"building", "done"}
    /\ Len(calls[t]) < CallBound
    /\ Follows(t, call)
    /\ IF w.kind = "panic"
       THEN /\ tstate' = [tstate EXCEPT ![t] = "panicked"]
            /\ UNCHANGED <<ctx, handles, calls, compiled>>
       ELSE IF out.kind = "panic"
       THEN /\ tstate' = [tstate EXCEPT ![t] = "panicked"]
            /\ ctx' = [ctx EXCEPT ![w.cell] = out.ctx]
            /\ UNCHANGED <<handles, calls, compiled>>
       ELSE /\ ctx' = [ctx EXCEPT ![w.cell] = out.ctx]
            /\ handles' = [handles EXCEPT ![t] = Append(@, out.ret)]
            /\ calls' = [calls EXCEPT ![t] = Append(@, call)]
            /\ UNCHANGED <<tstate, compiled>>
    /\ UNCHANGED <<build, plain_modulus, codecVars, lookupVars>>

Call(op, a, b) == [op |-> op, a |-> a, b |-> b]

GraphCipherAdd(t) ==
    \E i \in Positions(t, "cipher"), j \in Positions(t, "cipher") :
        LET w == with_ctx(t)
        IN Called(t, Call("graph_cipher_add", i, j), w,
                  graph_cipher_add(ctx[w.cell], handles[t][i], handles[t][j]))

GraphCipherPlainAdd(t) ==
    \E i \in Positions(t, "cipher"), j \in Positions(t, "plain") :
        LET w == with_ctx(t)
        IN Called(t, Call("graph_cipher_plain_add", i, j), w,
                  graph_cipher_plain_add(ctx[w.cell], handles[t][i], handles[t][j]))

GraphCipherConstAdd(t) ==
    \E i \in Positions(t, "cipher"), k \in Consts :
        LET w == with_ctx(t)
        IN Called(t, Call("graph_cipher_const_add", i, k), w,
                  graph_cipher_const_add(ctx[w.cell], handles[t][i], k, build))

GraphCipherSub(t) ==
    \E i \in Positions(t, "cipher"), j \in Positions(t, "cipher") :
        LET w == with_ctx(t)
        IN Called(t, Call("graph_cipher_sub", i, j), w,
                  graph_cipher_sub(ctx[w.cell], handles[t][i], handles[t][j]))

GraphCipherPlainSub(t) ==
    \E i \in Positions(t, "cipher"), j \in Positions(t, "plain") :
        LET w == with_ctx(t)
        IN Called(t, Call("graph_cipher_plain_sub", i, j), w,
                  graph_cipher_plain_sub(ctx[w.cell], handles[t][i], handles[t][j]))

GraphPlainCipherSub(t) ==
    \E i \in Positions(t, "plain"), j \in Positions(t, "cipher") :
        LET w == with_ctx(t)
        IN Called(t, Call("graph_plain_cipher_sub", i, j), w,
                  graph_plain_cipher_sub(ctx[w.cell], handles[t][i], handles[t][j]))

GraphCipherConstSub(t) ==
    \E i \in Positions(t, "cipher"), k \in Consts :
        LET w == with_ctx(t)
        IN Called(t, Call("graph_cipher_const_sub", i, k), w,
                  graph_cipher_const_sub(ctx[w.cell], handles[t][i], k, build))

GraphConstCipherSub(t) ==
    \E k \in Consts, j \in Positions(t, "cipher") :
        LET w == with_ctx(t)
        IN Called(t, Call("graph_const_cipher_sub", k, j), w,
                  graph_const_cipher_sub(ctx[w.cell], k, handles[t][j], build))

GraphCipherNeg(t) ==
    \E i \in Positions(t, "cipher") :
        LET w == with_ctx(t)
        IN Called(t, Call("graph_cipher_neg", i, i), w,
                  graph_cipher_neg(ctx[w.cell], handles[t][i]))

GraphCipherMul(t) ==
    \E i \in Positions(t, "cipher"), j \in Positions(t, "cipher") :
        LET w == with_ctx(t)
        IN Called(t, Call("graph_cipher_mul", i, j), w,
                  graph_cipher_mul(ctx[w.cell], handles[t][i], handles[t][j]))

GraphCipherConstMul(t) ==
    \E i \in Positions(t, "cipher"), k \in Consts :
        LET w == with_ctx(t)
        IN Called(t, Call("graph_cipher_const_mul", i, k), w,
                  graph_cipher_const_mul(ctx[w.cell], handles[t][i], k, build))

GraphCipherPlainMul(t) ==
    \E i \in Positions(t, "cipher"), j \in Positions(t, "plain") :
        LET w == with_ctx(t)
        IN Called(t, Call("graph_cipher_plain_mul", i, j), w,
                  graph_cipher_plain_mul(ctx[w.cell], handles[t][i], handles[t][j]))

UnsignedAdd(t) ==
    \E i \in Positions(t, "unsigned"), j \in Positions(t, "unsigned") :
        LET w == with_ctx(t)
        IN Called(t, Call("Unsigned_add", i, j), w,
                  Unsigned_add(ctx[w.cell], handles[t][i], handles[t][j]))

UnsignedMul(t) ==
    \E i \in Positions(t, "unsigned"), j \in Positions(t, "unsigned") :
        LET w == with_ctx(t)
        IN Called(t, Call("Unsigned_mul", i, j), w,
                  Unsigned_mul(ctx[w.cell], handles[t][i], handles[t][j]))

GraphNext ==
    \E t \in Threads :
        \/ EnterScope(t)
        \/ ExitScope(t)
        \/ GraphCipherAdd(t)
        \/ GraphCipherPlainAdd(t)
        \/ GraphCipherConstAdd(t)
        \/ GraphCipherSub(t)
        \/ GraphCipherPlainSub(t)
        \/ GraphPlainCipherSub(t)
        \/ GraphCipherConstSub(t)
        \/ GraphConstCipherSub(t)
        \/ GraphCipherNeg(t)
        \/ GraphCipherMul(t)
        \/ GraphCipherConstMul(t)
        \/ GraphCipherPlainMul(t)
        \/ UnsignedAdd(t)
        \/ UnsignedMul(t)

GraphSpec == GraphInit /\ [][GraphNext]_vars

----------------------------------------------------------------------------
(* A circuit function that also makes handles of its own: CircuitNode::new *)
(* takes any slice of node identities, whatever the component count of the *)
(* logical type.                                                           *)

\* the identity lists handed to CircuitNode::new: none, or two
NewIds == {<<>>, <<0, 1>>}

OperandInit ==
    /\ build \in Builds
    /\ plain_modulus \in GraphModuli
    /\ val = 0 /\ plaintext = <<>> /\ codec = "none" /\ result = NoResult
    /\ pc = "operands"
    /\ ctx = [t \in Threads |-> NoCtx]
    /\ handles = [t \in Threads |-> <<>>]
    /\ calls = [t \in Threads |-> <<>>]
    /\ tstate = [t \in Threads |-> "idle"]
    /\ compiled = [t \in Threads |-> <<>>]
    /\ NewLookup

\* CircuitNode::new(ids) in the circuit function, before its operator calls
CircuitNodeNew(t) ==
    /\ pc = "operands"
    /\ tstate[t] = "building"
    /\ calls[t] = <<>>
    /\ Len(handles[t]) < Len(InputKinds) + MaxNewHandles
    /\ \E kind \in {"cipher", "plain"}, ids \in NewIds :
           handles' = [handles EXCEPT ![t] = Append(@, CircuitNode(kind, ids))]
    /\ UNCHANGED <<build, plain_modulus, codecVars, ctx, calls, tstate, compiled,
                   lookupVars>>

OperandNext ==
    \/ EnterScope(1)
    \/ CircuitNodeNew(1)
    \/ ExitScope(1)
    \/ GraphCipherAdd(1)
    \/ GraphCipherPlainAdd(1)
    \/ GraphCipherConstAdd(1)
    \/ GraphCipherSub(1)
    \/ GraphCipherPlainSub(1)
    \/ GraphPlainCipherSub(1)
    \/ GraphCipherConstSub(1)
    \/ GraphConstCipherSub(1)
    \/ GraphCipherNeg(1)
    \/ GraphCipherMul(1)
    \/ GraphCipherConstMul(1)
    \/ GraphCipherPlainMul(1)
    \/ UnsignedAdd(1)
    \/ UnsignedMul(1)

OperandSpec == OperandInit /\ [][OperandNext]_vars

----------------------------------------------------------------------------
(* Two independent compilations, each on a thread of its own, with its own *)
(* scope and Parameter Set, their operator calls interleaved freely.       *)

IsolationInit ==
    /\ build \in Builds
    /\ plain_modulus \in GraphModuli
    /\ val = 0 /\ plaintext = <<>> /\ codec = "none" /\ result = NoResult
    /\ pc = "threads"
    /\ ctx = [t \in Threads |-> NoCtx]
    /\ handles = [t \in Threads |-> <<>>]
    /\ calls = [t \in Threads |-> <<>>]
    /\ tstate = [t \in Threads |-> "idle"]
    /\ compiled = [t \in Threads |-> <<>>]
    /\ NewLookup

IsolationSpec == IsolationInit /\ [][GraphNext]_vars

----------------------------------------------------------------------------
(* The stack-frame lookup as a state machine: the trace captured at the    *)
(* creation of a node is inserted, and the trace of an id is retrieved.    *)

\* the frames a backtrace captures: a call site, the same site at another
\* column, at another line, and two sites whose names and files hold a '-'
CallSites ==
    {StackFrameInfo(<<"f">>, <<"a">>, 10, 5),
     StackFrameInfo(<<"f">>, <<"a">>, 10, 9),
     StackFrameInfo(<<"f">>, <<"a">>, 11, 5),
     StackFrameInfo(<<"f", "-", "g">>, <<"a">>, 10, 5),
     StackFrameInfo(<<"f">>, <<"g", "-", "a">>, 10, 5)}

Traces == UNION {[1..k -> CallSites] : k \in 0..MaxFrames}

LookupInit ==
    /\ build \in Builds
    /\ plain_modulus \in GraphModuli
    /\ val = 0 /\ plaintext = <<>> /\ codec = "none" /\ result = NoResult
    /\ pc = "lookup"
    /\ ctx = [t \in Threads |-> NoCtx]
    /\ handles = [t \in Threads |-> <<>>]
    /\ calls = [t \in Threads |-> <<>>]
    /\ tstate = [t \in Threads |-> "idle"]
    /\ compiled = [t \in Threads |-> <<>>]
    /\ NewLookup

\* a node is created with the trace captured: its stack_id is the id of an
\* identical trace inserted before, or a new id
InsertTrace ==
    /\ pc = "lookup"
    /\ Len(inserted) < MaxInserts
    /\ \E trace \in Traces :
          LET key == serialize_trace(trace)
              id == stack_id_of(data_id_lookup, key)
          IN /\ data_id_lookup' = Put(data_id_lookup, key, id)
             /\ id_data_lookup' = IF key \in DOMAIN data_id_lookup
                                  THEN id_data_lookup
                                  ELSE Put(id_data_lookup, id, trace)
             /\ inserted' = Append(inserted, [trace |-> trace, stack_id |-> id])
    /\ UNCHANGED <<build, plain_modulus, codecVars, graphVars, found>>

\* the trace of an id is looked up
RetrieveTrace ==
    /\ pc = "lookup"
    /\ \E id \in 0..MaxInserts :
          found' = [id |-> id, res |-> id_to_data(id_data_lookup, id)]
    /\ UNCHANGED <<build, plain_modulus, codecVars, graphVars,
                   id_data_lookup, data_id_lookup, inserted>>

LookupNext ==
    \/ InsertTrace
    \/ RetrieveTrace

LookupSpec == LookupInit /\ [][LookupNext]_vars

----------------------------------------------------------------------------
(* Properties of the codecs, checked under CodecSpec *)

\* the value as the mathematics has it, with no width
Abs(v) == IF v < 0 THEN 0 - v ELSE v

\* bit i of the magnitude m
BitOf(m, i) == (m \div Pow2(i)) % 2

\* the least n with m < 2^n: the minimal number of significant bits of m
RECURSIVE MinimalBits(_)
MinimalBits(m) == IF m = 0 THEN 0 ELSE 1 + MinimalBits(m \div 2)

SignedRoundTrip(v, q, b) ==
    LET e == Signed_try_into_plaintext(v, q, b)
    IN IF e.kind = "panic" THEN Panic ELSE Signed_try_from_plaintext(e.val, q, b)

IntegerSignedRoundTrip(v, q, b) ==
    LET e == IntegerSigned_try_into_plaintext(v, q, b)
    IN IF e.kind = "panic" THEN Panic
       ELSE IntegerSigned_try_from_plaintext(e.val, q, b)

\* C1: once a signed value v has gone through the bfv Signed encoder (and
\* decoder), some plaintext modulus makes decode(encode(v)) return exactly v
\* without overflow or failure, for every v of the native width, the minimum
\* included.
C1_SignedRoundTripAll ==
    (codec = "Signed" /\ pc \in {"roundtrip", "panicked"})
        => \E q \in PlainModuli : SignedRoundTrip(val, q, build) = Ok(val)

\* C2: the Unsigned encoder writes bit i of v as coefficient i over the full
\* native width, and decoding the encoding returns exactly v, for every
\* unsigned v and every plaintext modulus.
C2_UnsignedRoundTrip ==
    (codec = "Unsigned" /\ pc \in {"encoded", "roundtrip", "panicked"})
        => /\ pc /= "panicked"
           /\ Len(plaintext) = 1
           /\ Len(plaintext[1]) = NativeBits
           /\ \A i \in 0..(NativeBits - 1) : plaintext[1][i + 1] = BitOf(val, i)
           /\ pc = "roundtrip" => result = Ok(val)

C2_Witness ==
    /\ codec = "Unsigned" /\ pc = "roundtrip"
    /\ val = UMax /\ result = Ok(UMax)

\* C3: the bfv Signed encoder sizes the polynomial to exactly the minimal
\* number of significant bits of |v|: 0 for v = 0, otherwise the index of the
\* highest set bit plus one.
C3_SignedMinimalLength ==
    (codec = "Signed" /\ pc = "encoded")
        => Len(plaintext[1]) = MinimalBits(Abs(val))

\* C4: for v /= 0 with -v representable, the bfv Signed encodings of v and -v
\* have the same length; every unset bit of |v| is coefficient 0 in both, every
\* set bit is 1 in the non-negative encoding and plain_modulus - 1 in the
\* negative one, so the non-zero positions of both are the set bits of |v|.
C4_SignConvention ==
    (codec = "Signed" /\ pc = "encoded" /\ val /= 0 /\ val /= IMin)
        => LET neg == Signed_try_into_plaintext(0 - val, plain_modulus, build)
               mine == plaintext[1]
               other == neg.val[1]
               pos == IF val > 0 THEN mine ELSE other
               minus == IF val > 0 THEN other ELSE mine
           IN /\ neg.kind = "ok"
              /\ Len(neg.val) = 1
              /\ Len(mine) = Len(other)
              /\ Len(mine) >= MinimalBits(Abs(val))
              /\ \A i \in 0..(Len(mine) - 1) :
                    /\ BitOf(Abs(val), i) = 1 =>
                          pos[i + 1] = 1 /\ minus[i + 1] = plain_modulus - 1
                    /\ BitOf(Abs(val), i) = 0 =>
                          pos[i + 1] = 0 /\ minus[i + 1] = 0
              /\ {i \in 1..Len(mine) : pos[i] /= 0}
                     = {i \in 1..Len(mine) : minus[i] /= 0}

C4_Witness ==
    /\ codec = "Signed" /\ pc = "encoded" /\ val = 0 - 5
    /\ plain_modulus = MaxPlainModulus

\* the contribution of coefficient c at index i, as an integer of no width
Contribution(c, i, pm) ==
    IF c < (pm + 1) \div 2 THEN c * Pow2(i) ELSE 0 - ((pm - c) * Pow2(i))

\* the sum of the contributions of the first n coefficients
RECURSIVE SumTo(_, _, _)
SumTo(coeffs, n, pm) ==
    IF n = 0 THEN 0
    ELSE SumTo(coeffs, n - 1, pm) + Contribution(coeffs[n], n - 1, pm)

Examined(coeffs) == Min(Len(coeffs), NativeBits)

\* every term and every partial sum of the decoding stays in the signed range
FitsNative(coeffs, pm) ==
    \A n \in 1..Examined(coeffs) :
        /\ Abs(Contribution(coeffs[n], n - 1, pm)) <= IMax
        /\ SumTo(coeffs, n, pm) \in IMin..IMax

C6_IntegerSignedRoundTrip ==
    (codec = "IntegerSigned" /\ pc \in {"roundtrip", "panicked"})
        => \E q \in PlainModuli : IntegerSignedRoundTrip(val, q, build) = Ok(val)

\* C7: a decoder returns IncorrectCiphertextCount exactly when the plaintext
\* does not have exactly one polynomial component, and then produces no value.
C7_CountError ==
    (pc \in {"decoded", "roundtrip"})
        => /\ (result = IncorrectCiphertextCount) <=> (Len(plaintext) /= 1)
           /\ Len(plaintext) /= 1 => result.kind /= "ok"

C7_Witness ==
    /\ pc = "decoded" /\ codec = "Unsigned"
    /\ Len(plaintext) = 2 /\ result = IncorrectCiphertextCount

\* C18: every polynomial the Signed and the Unsigned encoder produce is no
\* longer than the ring dimension of the Parameter Set, for every encodable
\* value and every ring dimension that is a power of two.
C18_LengthWithinRing ==
    (pc = "encoded" /\ codec \in {"Signed", "Unsigned"})
        => \A lattice_dimension \in LatticeDimensions :
              \A i \in 1..Len(plaintext) : Len(plaintext[i]) <= lattice_dimension

\* coefficient i (from 1) of a polynomial padded with zeros
Padded(x, i) == IF i <= Len(x) THEN x[i] ELSE 0

\* the sum of two polynomials, coefficient by coefficient modulo pm
AddPolynomials(x, y, pm) ==
    [i \in 1..(IF Len(x) > Len(y) THEN Len(x) ELSE Len(y)) |->
        (Padded(x, i) + Padded(y, i)) % pm]

\* C20: the bfv Signed decoding is additively homomorphic over the encoding:
\* for all signed a and b, adding the encodings of a and b coefficient by
\* coefficient modulo the plaintext modulus (the shorter padded with zeros)
\* and decoding the sum returns a + b, provided the plaintext modulus is at
\* least 5 and a + b is representable.
C20_AdditiveHomomorphism ==
    (codec = "Signed" /\ pc \in {"encoded", "panicked"} /\ plain_modulus >= 5)
        => \A b \in IMin..IMax :
              (val + b \in IMin..IMax) =>
                  LET ea == Signed_try_into_plaintext(val, plain_modulus, build)
                      eb == Signed_try_into_plaintext(b, plain_modulus, build)
                  IN /\ ea.kind = "ok" /\ eb.kind = "ok"
                     /\ pc = "encoded" /\ plaintext = ea.val
                     /\ Signed_try_from_plaintext(
                            << AddPolynomials(ea.val[1], eb.val[1], plain_modulus) >>,
                            plain_modulus, build) = Ok(val + b)

----------------------------------------------------------------------------
(* Properties of circuit construction, checked under GraphSpec *)

\* the graph thread t built: the one of its active scope, or the one its
\* scope handed on when it ended
GraphOf(t) == IF ctx[t].some THEN ctx[t].graph ELSE compiled[t]

\* the positions in graph g of the nodes with operation tag op
Tagged(g, op) == {i \in 1..Len(g) : g[i].operation = op}

\* the position in handles[t] of the handle the first call returns
FirstResult == Len(InputKinds) + 1

\* C8: a step of a thread that has no active scope either starts a scope or
\* changes nothing of that thread's context, handles, calls and finished
\* graph, the thread at most panicking; and a step in which a thread panics
\* creates or modifies no graph and returns no handle.
C8_ScopeMisuseFailsFast ==
    [][\A t \in Threads :
          /\ ~ctx[t].some =>
                \/ tstate[t] = "idle" /\ tstate'[t] = "building"
                \/ /\ ctx'[t] = ctx[t]
                   /\ handles'[t] = handles[t]
                   /\ calls'[t] = calls[t]
                   /\ compiled'[t] = compiled[t]
                   /\ tstate'[t] \in {tstate[t], "panicked"}
          /\ (tstate[t] /= "panicked" /\ tstate'[t] = "panicked") =>
                /\ ctx' = ctx /\ compiled' = compiled
                /\ handles' = handles /\ calls' = calls]_vars

C8_Witness ==
    \E t \in Threads :
        /\ tstate[t] = "panicked" /\ ~ctx[t].some
        /\ Len(compiled[t]) > Len(InputKinds)
        /\ Len(handles[t]) = Len(calls[t]) + Len(InputKinds)

\* C9: a + b and then (a + b) * c on the encrypted inputs a, b, c appends
\* exactly one addition node and exactly one multiplication node; the
\* multiplication node's inputs are the addition node and c's node, in that
\* order.  The same holds of u + u and (u + u) * u on an Unsigned input u.
C9_AddThenMul ==
    \A t \in Threads :
        LET g == GraphOf(t)
            adds == Tagged(g, "Add")
            muls == Tagged(g, "Multiply")
            shape == /\ Len(g) = Len(InputKinds) + 2
                     /\ Cardinality(adds) = 1
                     /\ Cardinality(muls) = 1
        IN /\ calls[t] = <<Call("graph_cipher_add", 1, 2),
                           Call("graph_cipher_mul", FirstResult, 3)>>
                => /\ shape
                   /\ \A x \in adds, m \in muls :
                         /\ g[x].inputs = <<0, 1>>
                         /\ g[m].inputs = <<x - 1, 2>>
                         /\ handles[t][FirstResult].ids = <<x - 1>>
           /\ calls[t] = <<Call("Unsigned_add", 5, 5),
                           Call("Unsigned_mul", FirstResult, 5)>>
                => /\ shape
                   /\ \A x \in adds, m \in muls :
                         /\ g[x].inputs = <<4, 4>>
                         /\ g[m].inputs = <<x - 1, 4>>

C9_Witness ==
    /\ tstate[1] = "done"
    /\ calls[1] = <<Call("graph_cipher_add", 1, 2),
                    Call("graph_cipher_mul", FirstResult, 3)>>
    /\ Tagged(compiled[1], "Multiply") /= {}

Arity(op) ==
    IF op \in {"Add", "Sub", "Multiply",
               "AddPlaintext", "SubPlaintext", "MultiplyPlaintext"} THEN 2
    ELSE IF op = "Negate" THEN 1
    ELSE 0

\* C11: in the graph of every scope, after any sequence of typed operator
\* calls, each node has as many input edges as its operation tag's arity (2
\* for add, subtract and multiply, cipher-cipher and cipher-plain, 1 for
\* negate, 0 for a plaintext literal and for an input), and every input edge
\* refers to a node created before the node itself.
C11_NodeArity ==
    \A t \in Threads :
        LET g == GraphOf(t)
        IN \A i \in 1..Len(g) :
              /\ Len(g[i].inputs) = Arity(g[i].operation)
              /\ \A e \in 1..Len(g[i].inputs) :
                    g[i].inputs[e] >= 0 /\ g[i].inputs[e] < i - 1

C11_Witness ==
    /\ tstate[2] = "done" /\ Len(calls[2]) = MaxCalls
    /\ Tagged(compiled[2], "Negate") /= {}
    /\ Tagged(compiled[2], "Literal") /= {}
    /\ Tagged(compiled[2], "SubPlaintext") /= {}
    /\ Tagged(compiled[2], "Multiply") /= {}

----------------------------------------------------------------------------
(* Properties of the operand handles, checked under OperandSpec *)

\* the handles thread t gave as operands of the call
OperandHandles(t, call) ==
    IF call.op \in {"graph_cipher_const_add", "graph_cipher_const_sub",
                    "graph_cipher_const_mul"}
    THEN {handles[t][call.a]}
    ELSE IF call.op = "graph_const_cipher_sub" THEN {handles[t][call.b]}
    ELSE {handles[t][call.a], handles[t][call.b]}

\* C12: every typed operator call checks that each operand handle has as many
\* node identities as the logical type has components (1 for Signed): a call
\* that completes had operands of exactly one identity each, and a call that
\* does not complete leaves the graph as it was, no node appended.
C12_WrongCountRejected ==
    [][\A t \in Threads :
          /\ calls'[t] /= calls[t] =>
                \A h \in OperandHandles(t, calls'[t][Len(calls'[t])]) :
                    Len(h.ids) = 1
          /\ (tstate[t] = "building" /\ tstate'[t] = "panicked") =>
                ctx'[t] = ctx[t]]_vars

----------------------------------------------------------------------------
(* Properties of the stack-frame lookup, checked under LookupSpec *)

\* C13: after any sequence of insertions, two nodes have the same trace id
\* exactly when their captured frame sequences are equal in every frame's
\* callee name, file, line and column; the trace stored for a node's id is the
\* trace inserted for the node; and the store holds one entry per distinct
\* trace.
C13_OneIdPerTrace ==
    /\ \A m \in 1..Len(inserted), n \in 1..Len(inserted) :
          (inserted[m].stack_id = inserted[n].stack_id)
              <=> (inserted[m].trace = inserted[n].trace)
    /\ \A n \in 1..Len(inserted) :
          /\ inserted[n].stack_id \in DOMAIN id_data_lookup
          /\ id_data_lookup[inserted[n].stack_id] = inserted[n].trace
    /\ Cardinality(DOMAIN id_data_lookup)
           = Cardinality({inserted[n].trace : n \in 1..Len(inserted)})

\* the nodes whose stack_id is id
NodesOf(id) == {n \in 1..Len(inserted) : inserted[n].stack_id = id}

----------------------------------------------------------------------------
(* Properties of independent compilations, checked under IsolationSpec *)

\* the closure of the call, run on the context c with the handles hs
ApplyCall(c, hs, call, bld) ==
    CASE call.op = "graph_cipher_add" -> graph_cipher_add(c, hs[call.a], hs[call.b])
      [] call.op = "graph_cipher_plain_add" ->
             graph_cipher_plain_add(c, hs[call.a], hs[call.b])
      [] call.op = "graph_cipher_const_add" ->
             graph_cipher_const_add(c, hs[call.a], call.b, bld)
      [] call.op = "graph_cipher_sub" -> graph_cipher_sub(c, hs[call.a], hs[call.b])
      [] call.op = "graph_cipher_plain_sub" ->
             graph_cipher_plain_sub(c, hs[call.a], hs[call.b])
      [] call.op = "graph_plain_cipher_sub" ->
             graph_plain_cipher_sub(c, hs[call.a], hs[call.b])
      [] call.op = "graph_cipher_const_sub" ->
             graph_cipher_const_sub(c, hs[call.a], call.b, bld)
      [] call.op = "graph_const_cipher_sub" ->
             graph_const_cipher_sub(c, call.a, hs[call.b], bld)
      [] call.op = "graph_cipher_neg" -> graph_cipher_neg(c, hs[call.a])
      [] call.op = "graph_cipher_mul" -> graph_cipher_mul(c, hs[call.a], hs[call.b])
      [] call.op = "graph_cipher_const_mul" ->
             graph_cipher_const_mul(c, hs[call.a], call.b, bld)
      [] call.op = "graph_cipher_plain_mul" ->
             graph_cipher_plain_mul(c, hs[call.a], hs[call.b])
      [] call.op = "Unsigned_add" -> Unsigned_add(c, hs[call.a], hs[call.b])
      [] OTHER -> Unsigned_mul(c, hs[call.a], hs[call.b])

\* the graph a thread builds alone by making the calls cs in order
RECURSIVE Alone(_, _, _, _)
Alone(c, hs, cs, bld) ==
    IF cs = <<>> THEN c.graph
    ELSE LET out == ApplyCall(c, hs, Head(cs), bld)
         IN Alone(out.ctx, Append(hs, out.ret), Tail(cs), bld)

InputHandles == [i \in 1..Len(InputKinds) |-> CircuitNode(InputKinds[i], <<i - 1>>)]

\* C15: with two threads each in a construction scope of its own, under every
\* interleaving, a step of one thread leaves the other thread's context (graph
\* and Parameter Set), handles, calls and finished graph as they were, and
\* each thread's graph is the graph its own calls, in its own order, build
\* under its own Parameter Set.
C15_ThreadsIsolated ==
    [][\A t \in Threads : \A u \in Threads \ {t} :
          /\ (handles'[t] /= handles[t] \/ calls'[t] /= calls[t]
                  \/ tstate'[t] /= tstate[t] \/ ctx'[t] /= ctx[t])
                => /\ ctx'[u] = ctx[u] /\ compiled'[u] = compiled[u]
                   /\ handles'[u] = handles[u] /\ calls'[u] = calls[u]
                   /\ tstate'[u] = tstate[u]
          /\ tstate'[t] /= "idle"
                => (IF ctx'[t].some THEN ctx'[t].graph ELSE compiled'[t])
                       = Alone(NewContext(ParamsOf(t)), InputHandles, calls'[t], build)]_vars

C15_Witness ==
    /\ pc = "threads"
    /\ tstate[1] = "building" /\ tstate[2] = "building"
    /\ Len(calls[1]) = MaxThreadCalls /\ Len(calls[2]) = MaxThreadCalls
    /\ calls[1][1].op = "graph_const_cipher_sub"
    /\ calls[2][1].op = "graph_cipher_const_mul"
    /\ ctx[1].params /= ctx[2].params
    /\ Len(ctx[1].graph) /= Len(ctx[2].graph)

----------------------------------------------------------------------------
(* Properties of the operators with a constant or plaintext operand, checked *)
(* under GraphSpec                                                          *)

\* what a cipher-with-constant call leaves on the context c: after the graph
\* of c, one literal node with the encoding of k under the Parameter Set of
\* c, then one node tagged op over (the operand a, the literal), and a handle
\* on that node alone
LiteralThenOp(c, a, k, out, op) ==
    LET n == Len(c.graph)
        enc == Signed_try_into_plaintext(k, c.params.plain_modulus, build)
    IN /\ out.kind = "ok"
       /\ enc.kind = "ok"
       /\ out.ctx.params = c.params
       /\ Len(out.ctx.graph) = n + 2
       /\ SubSeq(out.ctx.graph, 1, n) = c.graph
       /\ out.ctx.graph[n + 1] = Node("Literal", <<>>, enc.val)
       /\ out.ctx.graph[n + 2] = Node(op, <<a.ids[1], n>>, <<>>)
       /\ out.ret.ids = <<n + 1>>

\* C16: in a scope, each cipher-with-constant operator (add, subtract,
\* multiply, the i64 constant on the right), for every constant, encodes the
\* constant with the scope's Parameter Set, appends exactly one literal node
\* carrying the encoding, then exactly one cipher-plain operation node over
\* (cipher operand, literal node) in that order, and returns a handle on the
\* operation node only.
C16_ConstOperandStructure ==
    \A t \in Threads :
        (ctx[t].some /\ Len(calls[t]) >= 1) =>
            \A i \in Positions(t, "cipher"), k \in Consts :
                LET c == ctx[t]
                    a == handles[t][i]
                IN /\ LiteralThenOp(c, a, k,
                          graph_cipher_const_add(c, a, k, build), "AddPlaintext")
                   /\ LiteralThenOp(c, a, k,
                          graph_cipher_const_sub(c, a, k, build), "SubPlaintext")
                   /\ LiteralThenOp(c, a, k,
                          graph_cipher_const_mul(c, a, k, build), "MultiplyPlaintext")


\* values of the arguments a, b, c, d, u of the circuit function
ArgValues == {<<3, 0 - 2, 5, 7, 1>>, <<0 - 4, 6, 0, 0 - 1, 2>>}

\* the integer a node of the graph g evaluates to, the arguments being env;
\* a literal is worth the sum of the contributions of its coefficients
RECURSIVE Eval(_, _, _, _)
Eval(g, id, env, pm) ==
    LET nd == g[id + 1]
        in(k) == Eval(g, nd.inputs[k], env, pm)
    IN CASE nd.operation \in {"InputCiphertext", "InputPlaintext"} -> env[id + 1]
         [] nd.operation = "Literal" ->
                SumTo(nd.payload[1], Len(nd.payload[1]), pm)
         [] nd.operation \in {"Add", "AddPlaintext"} -> in(1) + in(2)
         [] nd.operation \in {"Sub", "SubPlaintext"} -> in(1) - in(2)
         [] nd.operation \in {"Multiply", "MultiplyPlaintext"} -> in(1) * in(2)
         [] nd.operation = "Negate" -> 0 - in(1)

\* what a subtraction with the cipher b on the right leaves on the context c:
\* after the graph of c and the nodes lits, a cipher-plain subtraction over
\* (b, the node left) and a negate node over it, a handle on the negate node
NegatedSub(c, left, b, out, lits) ==
    LET n == Len(c.graph) + Len(lits)
    IN /\ out.kind = "ok"
       /\ out.ctx.graph = c.graph \o lits \o
              << Node("SubPlaintext", <<b.ids[1], left>>, <<>>),
                 Node("Negate", <<n>>, <<>>) >>
       /\ out.ret.ids = <<n + 1>>

\* the handle returned evaluates to the left value less the cipher b
EvaluatesToDifference(c, leftValue(_), b, out) ==
    \A env \in ArgValues :
        LET pm == c.params.plain_modulus
        IN Eval(out.ctx.graph, out.ret.ids[1], env, pm)
               = leftValue(env) - Eval(c.graph, b.ids[1], env, pm)

\* C19: subtraction with the plaintext or the constant on the left and the
\* cipher on the right (graph_plain_cipher_sub, graph_const_cipher_sub) is
\* built as a cipher-plain subtraction node with inputs (cipher b, plaintext
\* a) followed by a negate node over it, the handle returned refers to the
\* negate node, and under integer arithmetic the sub-graph built evaluates to
\* a - b, for all operand values.
C19_ReversedSubIsNegatedSub ==
    \A t \in Threads :
        (ctx[t].some /\ Len(calls[t]) >= 1) =>
            \A i \in Positions(t, "cipher") :
                LET c == ctx[t]
                    b == handles[t][i]
                IN /\ \A j \in Positions(t, "plain") :
                        LET a == handles[t][j]
                            out == graph_plain_cipher_sub(c, a, b)
                            ofA(env) == Eval(c.graph, a.ids[1], env,
                                             c.params.plain_modulus)
                        IN /\ NegatedSub(c, a.ids[1], b, out, <<>>)
                           /\ EvaluatesToDifference(c, ofA, b, out)
                   /\ \A k \in Consts :
                        LET out == graph_const_cipher_sub(c, k, b, build)
                            enc == Signed_try_into_plaintext(
                                       k, c.params.plain_modulus, build)
                            ofK(env) == k
                        IN /\ enc.kind = "ok"
                           /\ NegatedSub(c, Len(c.graph), b, out,
                                  << Node("Literal", <<>>, enc.val) >>)
                           /\ EvaluatesToDifference(c, ofK, b, out)

\* C17: a typed operator call only appends: the graph after the call begins
\* with the graph before it, every node unchanged in tag, payload and ordered
\* inputs; the nodes it creates take the identities from the first unused one
\* on, each greater than every identity there was; and the handle it returns
\* refers to a node it created.  The graph handed on at the end of the scope
\* is that graph.
C17_AppendOnly ==
    [][\A t \in Threads :
          /\ (ctx[t].some /\ ctx'[t].some) =>
                LET g == ctx[t].graph
                    h == ctx'[t].graph
                IN /\ Len(h) >= Len(g)
                   /\ SubSeq(h, 1, Len(g)) = g
                   /\ calls'[t] /= calls[t] =>
                         /\ Len(h) > Len(g)
                         /\ \A x \in 1..Len(handles'[t][Len(handles'[t])].ids) :
                               LET id == handles'[t][Len(handles'[t])].ids[x]
                               IN id >= Len(g) /\ id < Len(h)
          /\ (ctx[t].some /\ ~ctx'[t].some) => compiled'[t] = ctx[t].graph]_vars

C17_Witness ==
    /\ ctx[1].some /\ Len(calls[1]) = MaxCalls
    /\ calls[1][MaxCalls].op = "graph_const_cipher_sub"
    /\ Len(ctx[1].graph) = Len(InputKinds) + MaxCalls + 2

====
